---- MODULE Spec2Model ----
(***************************************************************************)
(* A model of nlogo_graphs.py: the graph generation entry points (MAG,     *)
(* Kronecker and the networkx generators, plain and bidirected), the       *)
(* influence-path query and the homophily measure.                         *)
(*                                                                         *)
(* A networkx graph is modelled with its iteration order, because the      *)
(* lists handed to NetLogo are built from that order: `nodes` is the       *)
(* insertion-ordered node list and adj[v] the insertion-ordered neighbour  *)
(* list of v (the successor list for a DiGraph).                           *)
(*                                                                         *)
(* Probabilities and random draws live on a grid: a probability is         *)
(* p / Scale with p in 0..Scale, a draw of random() is r / Scale with      *)
(* r in 0..Scale-1 (random() is in [0,1)).  An entry of the probability    *)
(* matrix is read exactly once by each sampling loop, so the entry is      *)
(* drawn when it is read; every matrix over the grid is covered.           *)
(***************************************************************************)
EXTENDS Integers, Sequences, FiniteSets, TLC

\* Largest number of nodes of a generated graph.
MaxN == 3
\* Resolution of the probability / random() grid.
Scale == 2

NodeIds == 0..(MaxN - 1)
Probs == 0..Scale
Draws == 0..(Scale - 1)

VARIABLES
  op,       \* the entry point being executed ("idle" between calls)
  pc,       \* position inside the entry point
  n,        \* len(p_edge) / G_array.shape[0] / n
  i, j,     \* loop indexes of the sampling loop
  p,        \* the probability read in the current iteration
  rand,     \* the value random() returned in the current iteration
  calls,    \* calls[<<a, b>>]: number of random() calls made in iteration (a, b)
  G,        \* the networkx Graph under construction
  sampled,  \* the graph as sampled, before the component pruning
  ret,      \* the record returned to NetLogo
  citizens,      \* NetLogo's citizens: a list of brains [ID, A]
  friend_links,  \* NetLogo's friend links: a list of link tokens
  fn,            \* the query executed on the NetLogo graph ("idle": none yet)
  args,          \* the arguments of that query
  wG,            \* the graph the query built, with W the edge weights
  paths,         \* the local `paths` of influencer_paths_within_distance
  out            \* the outcome of the query

gvars == <<op, pc, n, i, j, p, rand, calls, G, sampled, ret>>
nvars == <<citizens, friend_links, fn, args, wG, paths, out>>
vars == <<gvars, nvars>>

----------------------------------------------------------------------------
\* Sequence helpers

Contains(s, x) == \E k \in 1..Len(s) : s[k] = x

Range(s) == { s[k] : k \in 1..Len(s) }

RECURSIVE Flatten(_)
Flatten(ss) == IF ss = <<>> THEN <<>> ELSE Head(ss) \o Flatten(Tail(ss))

----------------------------------------------------------------------------
\* networkx Graph / DiGraph

\* nx.Graph()
Graph == [directed |-> FALSE, nodes |-> <<>>, adj |-> [v \in NodeIds |-> <<>>]]

\* nx.DiGraph()
DiGraph == [directed |-> TRUE, nodes |-> <<>>, adj |-> [v \in NodeIds |-> <<>>]]

\* G.add_node(v): a node already present keeps its place
add_node(g, v) ==
  IF Contains(g.nodes, v) THEN g ELSE [g EXCEPT !.nodes = Append(@, v)]

\* G.add_nodes_from(range(0, m))
RECURSIVE add_nodes_from_range(_, _, _)
add_nodes_from_range(g, k, m) ==
  IF k >= m THEN g ELSE add_nodes_from_range(add_node(g, k), k + 1, m)

\* G.add_edge(u, v): adds missing endpoints (u first); an undirected graph
\* records the edge on both endpoints, a DiGraph on u only; an edge already
\* present keeps its place
add_edge(g, u, v) ==
  LET g1 == add_node(add_node(g, u), v)
      a1 == [g1.adj EXCEPT ![u] = IF Contains(@, v) THEN @ ELSE Append(@, v)]
      a2 == IF g.directed THEN a1
            ELSE [a1 EXCEPT ![v] = IF Contains(@, u) THEN @ ELSE Append(@, u)]
  IN  [g1 EXCEPT !.adj = a2]

\* G.edges, in iteration order.  Undirected: each node in node order reports
\* its neighbours that are not earlier nodes; directed: every successor.
edges(g) ==
  LET seen(k) == { g.nodes[m] : m \in 1..(k - 1) }
      from(k) ==
        LET u == g.nodes[k]
            nb == IF g.directed THEN g.adj[u]
                  ELSE SelectSeq(g.adj[u], LAMBDA w : w \notin seen(k))
        IN  [m \in 1..Len(nb) |-> <<u, nb[m]>>]
  IN  Flatten([k \in 1..Len(g.nodes) |-> from(k)])

\* G.remove_nodes_from(S): the nodes of S go, with every edge on them
remove_nodes_from(g, S) ==
  [g EXCEPT
     !.nodes = SelectSeq(@, LAMBDA v : v \notin S),
     !.adj = [v \in NodeIds |->
                IF v \in S THEN <<>>
                ELSE SelectSeq(g.adj[v], LAMBDA w : w \notin S)]]

\* The nodes reachable from the set `front` (breadth-first closure)
RECURSIVE Reach(_, _)
Reach(g, front) ==
  LET next == front \cup { w \in NodeIds : \E v \in front : Contains(g.adj[v], w) }
  IN  IF next = front THEN front ELSE Reach(g, next)

\* nx.connected_components(G): one set per component, in the order of each
\* component's first node in node order
RECURSIVE components_from(_, _, _)
components_from(g, k, seen) ==
  IF k > Len(g.nodes) THEN <<>>
  ELSE IF g.nodes[k] \in seen THEN components_from(g, k + 1, seen)
  ELSE LET c == Reach(g, {g.nodes[k]})
       IN  <<c>> \o components_from(g, k + 1, seen \cup c)

connected_components(g) == components_from(g, 1, {})

\* max(components, key=len): the first component of the largest size
max_by_len(cs) ==
  LET best == CHOOSE k \in 1..Len(cs) :
                /\ \A m \in 1..Len(cs) : Cardinality(cs[m]) <= Cardinality(cs[k])
                /\ \A m \in 1..(k - 1) : Cardinality(cs[m]) < Cardinality(cs[k])
  IN  cs[best]

----------------------------------------------------------------------------
\* Conversions to NetLogo structures

\* bidirected_graph without the second add_edge
RECURSIVE bidirect_from_one_way(_, _)
bidirect_from_one_way(d, es) ==
  IF es = <<>> THEN d
  ELSE bidirect_from_one_way(add_edge(d, Head(es)[1], Head(es)[2]), Tail(es))

\* bidirected_graph(G): a DiGraph with both orientations of every edge of G
RECURSIVE bidirect_from(_, _)
bidirect_from(d, es) ==
  IF es = <<>> THEN d
  ELSE LET e == Head(es)
       IN  bidirect_from(add_edge(add_edge(d, e[1], e[2]), e[2], e[1]), Tail(es))

\* bidirected_graph that copies the nodes of G before its edges
bidirected_graph_with_nodes(g) ==
  bidirect_from([DiGraph EXCEPT !.nodes = g.nodes], edges(g))

bidirected_graph(g) == bidirect_from(DiGraph, edges(g))

\* nlogo_safe_nodes_edges(G): list(G.nodes) and the 2-element lists of G.edges
nlogo_safe_nodes_edges(g) == [nodes |-> g.nodes, edges |-> edges(g)]

\* nlogo_G.update({'L': L})
with_L(r, table) == [nodes |-> r.nodes, edges |-> r.edges, hasL |-> TRUE, L |-> table]

\* a record without the key 'L'
without_L(r) == [nodes |-> r.nodes, edges |-> r.edges, hasL |-> FALSE, L |-> <<>>]

----------------------------------------------------------------------------
\* The external collaborators of the generators

\* mag.attr_mag(n, attrs, style, resolution)[1]: the attribute table, one
\* vector per node index 0..m-1; one attribute of m levels, so that node k
\* has level k mod m
attr_mag_L(m) == [k \in 1..m |-> <<(k - 1) % m>>]

\* The sizes kronecker_pow(seed, k) and mag.attr_mag can return within MaxN
Shapes == 1..MaxN

----------------------------------------------------------------------------
\* The generation entry points

MAG_ops == {"MAG_graph", "MAG_graph_bidirected"}
kronecker_ops == {"kronecker_graph", "kronecker_graph_bidirected"}
nx_ops == {"ER_graph_bidirected", "WS_graph_bidirected", "BA_graph_bidirected"}
bidirected_ops == nx_ops \cup {"MAG_graph_bidirected", "kronecker_graph_bidirected"}

NoCalls == [e \in NodeIds \X NodeIds |-> 0]

NoRet == [nodes |-> <<>>, edges |-> <<>>, hasL |-> FALSE, L |-> <<>>]

\* the test of the MAG sampling loops: rand <= p_edge[(i,j)]
MAG_connects(r, pe) == r <= pe

\* the test of the Kronecker sampling loops: random() < p
kronecker_connects(r, pe) == r < pe

\* for j in range(...) inside for i in range(...): the next index pair
NextI == IF j + 1 < n THEN i ELSE i + 1
NextJ == IF j + 1 < n THEN j + 1 ELSE 0

\* entry of MAG_graph / MAG_graph_bidirected up to the loops:
\* G = nx.Graph(); G.add_nodes_from(range(0, len(p_edge[0])))
MAG_call ==
  /\ pc = "idle"
  /\ \E o \in MAG_ops, m \in Shapes :
       /\ op' = o /\ n' = m
       /\ G' = add_nodes_from_range(Graph, 0, m)
  /\ pc' = "loop" /\ i' = 0 /\ j' = 0
  /\ UNCHANGED <<p, rand, calls, sampled, ret>>
  /\ UNCHANGED nvars

\* one iteration of the MAG loops, for every pair (i, j) of the cross product
MAG_iter ==
  /\ pc = "loop" /\ op \in MAG_ops /\ i < n
  /\ \E pe \in Probs, r \in Draws :
       /\ p' = pe /\ rand' = r
       /\ G' = IF MAG_connects(r, pe) THEN add_edge(G, i, j) ELSE G
  /\ calls' = [calls EXCEPT ![<<i, j>>] = @ + 1]
  /\ i' = NextI /\ j' = NextJ
  /\ UNCHANGED <<op, pc, n, sampled, ret>>
  /\ UNCHANGED nvars

\* MAG_graph after the loops
MAG_graph_return ==
  /\ pc = "loop" /\ op = "MAG_graph" /\ i >= n
  /\ ret' = with_L(nlogo_safe_nodes_edges(G), attr_mag_L(n))
  /\ sampled' = G
  /\ pc' = "done"
  /\ UNCHANGED <<op, n, i, j, p, rand, calls, G>>
  /\ UNCHANGED nvars

\* MAG_graph_bidirected after the loops
MAG_graph_bidirected_return ==
  /\ pc = "loop" /\ op = "MAG_graph_bidirected" /\ i >= n
  /\ ret' = with_L(nlogo_safe_nodes_edges(bidirected_graph(G)), attr_mag_L(n))
  /\ sampled' = G
  /\ pc' = "done"
  /\ UNCHANGED <<op, n, i, j, p, rand, calls, G>>
  /\ UNCHANGED nvars

\* entry of kronecker_graph / kronecker_graph_bidirected up to the loops
kronecker_call ==
  /\ pc = "idle"
  /\ \E o \in kronecker_ops, m \in Shapes :
       /\ op' = o /\ n' = m
       /\ G' = add_nodes_from_range(Graph, 0, m)
  /\ pc' = "loop" /\ i' = 0 /\ j' = 0
  /\ UNCHANGED <<p, rand, calls, sampled, ret>>
  /\ UNCHANGED nvars

\* one iteration of the Kronecker loops: i == j is skipped without a draw
kronecker_iter ==
  /\ pc = "loop" /\ op \in kronecker_ops /\ i < n
  /\ \/ /\ i = j
        /\ UNCHANGED <<p, rand, calls, G>>
     \/ /\ i # j
        /\ \E pe \in Probs, r \in Draws :
             /\ p' = pe /\ rand' = r
             /\ G' = IF kronecker_connects(r, pe) THEN add_edge(G, i, j) ELSE G
        /\ calls' = [calls EXCEPT ![<<i, j>>] = @ + 1]
  /\ i' = NextI /\ j' = NextJ
  /\ UNCHANGED <<op, pc, n, sampled, ret>>
  /\ UNCHANGED nvars

\* largest_connected_component = max(nx.connected_components(G), key=len)
\* G.remove_nodes_from(G.nodes - largest_connected_component)
largest_component_only(g) ==
  LET largest_connected_component == max_by_len(connected_components(g))
  IN  remove_nodes_from(g, Range(g.nodes) \ largest_connected_component)

\* kronecker_graph after the loops
kronecker_graph_return ==
  /\ pc = "loop" /\ op = "kronecker_graph" /\ i >= n
  /\ sampled' = G
  /\ G' = largest_component_only(G)
  /\ ret' = without_L(nlogo_safe_nodes_edges(G'))
  /\ pc' = "done"
  /\ UNCHANGED <<op, n, i, j, p, rand, calls>>
  /\ UNCHANGED nvars

\* kronecker_graph_bidirected after the loops
kronecker_graph_bidirected_return ==
  /\ pc = "loop" /\ op = "kronecker_graph_bidirected" /\ i >= n
  /\ sampled' = G
  /\ G' = largest_component_only(G)
  /\ ret' = without_L(nlogo_safe_nodes_edges(bidirected_graph(G')))
  /\ pc' = "done"
  /\ UNCHANGED <<op, n, i, j, p, rand, calls>>
  /\ UNCHANGED nvars

\* ER/WS/BA_graph_bidirected: the networkx generator starts with its n nodes
nx_generator_call ==
  /\ pc = "idle"
  /\ \E o \in nx_ops, m \in Shapes :
       /\ op' = o /\ n' = m
       /\ G' = add_nodes_from_range(Graph, 0, m)
  /\ pc' = "loop"
  /\ UNCHANGED <<i, j, p, rand, calls, sampled, ret>>
  /\ UNCHANGED nvars

\* the networkx generator adds one more edge between two distinct nodes;
\* every simple graph on the n nodes, in every insertion order, can result
nx_generator_add_edge ==
  /\ pc = "loop" /\ op \in nx_ops
  /\ \E u \in 0..(n - 1), v \in 0..(n - 1) :
       /\ u # v /\ ~Contains(G.adj[u], v)
       /\ G' = add_edge(G, u, v)
  /\ UNCHANGED <<op, pc, n, i, j, p, rand, calls, sampled, ret>>
  /\ UNCHANGED nvars

\* return nlogo_safe_nodes_edges(bidirected_graph(G))
nx_bidirected_return ==
  /\ pc = "loop" /\ op \in nx_ops
  /\ ret' = without_L(nlogo_safe_nodes_edges(bidirected_graph(G)))
  /\ sampled' = G
  /\ pc' = "done"
  /\ UNCHANGED <<op, n, i, j, p, rand, calls, G>>
  /\ UNCHANGED nvars

----------------------------------------------------------------------------
\* The NetLogo graph

\* The values of the citizens' attribute A and of a message's A
AttrValues == {0, 1}

\* A link prints as "(social-friend a b)", a subscriber link as
\* "(subscriber a b)" and the target as "(citizen a)": a token is the list
\* of words split(' ') yields, the parenthesis taken off the last word
link_token(a, b) == <<"social-friend", a, b>>
subscriber_token(a, b) == <<"subscriber", a, b>>
citizen_token(a) == <<"citizen", a>>

\* int(link_split[1]), int(link_split[2].replace(')',''))
link_end1(link) == link[2]
link_end2(link) == link[3]

\* int(subscriber.split(' ')[2].replace(')',''))
subscriber_id(subscriber) == subscriber[3]

\* int(target.split(' ')[1].replace(')', ''))
target_id_of(target) == target[2]

\* nlogo_graph_to_nx, first loop: one node per citizen, in list order
RECURSIVE add_citizens(_, _)
add_citizens(g, cits) ==
  IF cits = <<>> THEN g
  ELSE add_citizens(add_node(g, Head(cits).ID), Tail(cits))

\* nlogo_graph_to_nx, second loop: one edge per friend link
RECURSIVE add_links(_, _)
add_links(g, links) ==
  IF links = <<>> THEN g
  ELSE add_links(add_edge(g, link_end1(Head(links)), link_end2(Head(links))),
                 Tail(links))

nlogo_graph_to_nx(cits, links) == add_links(add_citizens(Graph, cits), links)

\* G.nodes[v]: the attributes nlogo_graph_to_nx copied from the citizen
node_data(cits, v) ==
  LET k == CHOOSE m \in 1..Len(cits) :
             /\ cits[m].ID = v
             /\ \A m2 \in (m + 1)..Len(cits) : cits[m2].ID # v
  IN  [A |-> cits[k].A]

Abs(x) == IF x < 0 THEN -x ELSE x

\* messaging.dist_to_agent_brain(brain, message): the distance between the
\* brain's attribute and the message's value for it
dist_to_agent_brain(brain, message) == Abs(brain.A - message.A)

----------------------------------------------------------------------------
\* influencer_paths_within_distance

\* for e in G.edges: G[e[0]][e[1]]['weight'] = dist_to_agent_brain(G.nodes[e[0]], message)
\* An undirected graph keeps one attribute dictionary per edge, shared by
\* G[u][v] and G[v][u].
edge_weight_of_second(cits, e, message) ==
  dist_to_agent_brain(node_data(cits, e[2]), message)

edge_weight(cits, e, message) == dist_to_agent_brain(node_data(cits, e[1]), message)

RECURSIVE assign_weights(_, _, _, _)
assign_weights(W, es, cits, message) ==
  IF es = <<>> THEN W
  ELSE LET e == Head(es)
           w == edge_weight(cits, e, message)
       IN  assign_weights((<<e[1], e[2]>> :> w) @@ (<<e[2], e[1]>> :> w) @@ W,
                          Tail(es), cits, message)

\* The simple paths from v to t that avoid `visited`
RECURSIVE simple_paths(_, _, _, _)
simple_paths(g, v, t, visited) ==
  IF v = t THEN {<<v>>}
  ELSE UNION { { <<v>> \o q : q \in simple_paths(g, w, t, visited \cup {v}) } :
               w \in { x \in Range(g.adj[v]) : x \notin visited \cup {v} } }

RECURSIVE path_cost(_, _)
path_cost(W, path) ==
  IF Len(path) < 2 THEN 0
  ELSE W[<<path[1], path[2]>>] + path_cost(W, Tail(path))

\* The paths nx.dijkstra_path(G, s, t) can return: the least-cost paths
\* (which of several of equal cost depends on networkx's heap order);
\* the empty set stands for NetworkXNoPath
dijkstra_paths(g, W, s, t) ==
  LET P == simple_paths(g, s, t, {})
      cost == [q \in P |-> path_cost(W, q)]
  IN  { q \in P : \A r \in P : cost[q] <= cost[r] }

\* dist_path = [dist_to_agent_brain(G.nodes[v], message) for v in path][:-1]
dist_path_of(cits, path, message) ==
  LET full == [k \in 1..Len(path) |->
                 dist_to_agent_brain(node_data(cits, path[k]), message)]
  IN  SubSeq(full, 1, Len(full) - 1)

\* the filter with >= in place of >
within_threshold_strict(dist_path, threshold) ==
  Cardinality({ k \in 1..Len(dist_path) : dist_path[k] - threshold >= 0 }) = 0

\* sum((np.array(dist_path) - threshold) > 0) == 0
within_threshold(dist_path, threshold) ==
  Cardinality({ k \in 1..Len(dist_path) : dist_path[k] - threshold > 0 }) = 0

\* the loop over paths.keys() that fills threshold_paths
threshold_paths_of(cits, ps, message, threshold) ==
  LET kept == { s \in DOMAIN ps :
                  within_threshold(dist_path_of(cits, ps[s], message), threshold) }
  IN  [s \in kept |-> dist_path_of(cits, ps[s], message)]

\* Every way to pick one element of lc[s] for each s of S
RECURSIVE choices(_, _)
choices(S, lc) ==
  IF S = {} THEN { [x \in {} |-> <<>>] }
  ELSE LET s == CHOOSE x \in S : TRUE
       IN  { (s :> q) @@ f : q \in lc[s], f \in choices(S \ {s}, lc) }

NoOut == [kind |-> "none", value |-> [x \in {} |-> <<>>]]

\* The lists of subscriber links a query can name: any citizens, by ID
SubscriberLists ==
  { SelectSeq([k \in 1..MaxN |-> subscriber_token(MaxN, k - 1)],
              LAMBDA tok : subscriber_id(tok) \in S) : S \in SUBSET NodeIds }

Messages == { [A |-> m] : m \in AttrValues }

Thresholds == AttrValues

\* The whole call.  g, W and found are bound once (a singleton \E) and
\* shared by every choice of subscribers and threshold.
influencer_paths_within_distance ==
  /\ fn = "idle"
  /\ \E message \in Messages, t \in NodeIds,
        g \in {nlogo_graph_to_nx(citizens, friend_links)} :
       \E W \in {assign_weights([x \in {} |-> 0], edges(g), citizens, message)} :
         LET target == citizen_token(t)
             target_id == target_id_of(target)
         IN  \E found \in {[s \in NodeIds |-> dijkstra_paths(g, W, s, target_id)]},
                subscribers \in SubscriberLists, threshold \in Thresholds :
               LET ids == { subscriber_id(subscribers[k]) : k \in 1..Len(subscribers) }
               IN  /\ fn' = "influencer_paths_within_distance"
                   /\ args' = [subscribers |-> subscribers, target |-> target,
                               message |-> message, threshold |-> threshold]
                   /\ wG' = [G |-> g, W |-> W]
                   /\ IF \E s \in ids : found[s] = {}
                      THEN \* nx.dijkstra_path raises NetworkXNoPath inside the
                           \* comprehension; nothing catches it
                           /\ paths' = [x \in {} |-> <<>>]
                           /\ out' = [kind |-> "NetworkXNoPath",
                                      value |-> [x \in {} |-> <<>>]]
                      ELSE \E ps \in choices(ids, found) :
                             /\ paths' = ps
                             /\ out' = [kind |-> "ok",
                                        value |-> threshold_paths_of(citizens, ps,
                                                                     message, threshold)]
  /\ UNCHANGED <<citizens, friend_links>>
  /\ UNCHANGED gvars

----------------------------------------------------------------------------
\* graph_homophily

RECURSIVE GCD(_, _)
GCD(a, b) == IF b = 0 THEN a ELSE GCD(b, a % b)

\* a float: a fraction in lowest terms, or nan
Frac(a, b) ==
  IF b = 0 THEN [kind |-> "nan", num |-> 0, den |-> 0]
  ELSE LET d == GCD(Abs(a), b) IN [kind |-> "value", num |-> a \div d, den |-> b \div d]

\* numpy's x / y on scalars: 0 / 0 is nan (a RuntimeWarning, no exception);
\* nan in either operand gives nan
np_div(x, y) ==
  IF x.kind = "nan" \/ y.kind = "nan" \/ y.num = 0 THEN Frac(0, 0)
  ELSE Frac(x.num * y.den, x.den * y.num)

np_add(x, y) ==
  IF x.kind = "nan" \/ y.kind = "nan" THEN Frac(0, 0)
  ELSE Frac(x.num * y.den + y.num * x.den, x.den * y.den)

\* the sum of row[0] .. row[m]
RECURSIVE SumTo(_, _)
SumTo(row, m) == IF m < 0 THEN 0 ELSE row[m] + SumTo(row, m - 1)

\* graph_homophily(G, node_attr), with attr_of[v] = G.nodes[v][node_attr].
\* attrs and the rows of adj are in the order of G.nodes, and the loop
\* indexes both with the node itself.
graph_homophily(g, attr_of) ==
  LET size == Len(g.nodes)
      attrs == [k \in 0..(size - 1) |-> attr_of[g.nodes[k + 1]]]
      adj == [r \in 0..(size - 1) |->
                [c \in 0..(size - 1) |->
                   IF Contains(g.adj[g.nodes[r + 1]], g.nodes[c + 1]) THEN 1 ELSE 0]]
      weighted(r) ==
        SumTo([c \in 0..(size - 1) |-> adj[r][c] * Abs(attrs[c] - attrs[r])], size - 1)
      degree(r) == SumTo(adj[r], size - 1)
      total[k \in 0..size] ==
        IF k = 0 THEN Frac(0, 1)
        ELSE LET node == g.nodes[k]
             IN  np_add(total[k - 1],
                        np_div(Frac(weighted(node), 1), Frac(degree(node), 1)))
  IN  np_div(total[size], Frac(size, 1))

\* nlogo_graph_homophily(citizens, friend_links, node_attr)
nlogo_graph_homophily ==
  /\ fn = "idle"
  /\ LET g == nlogo_graph_to_nx(citizens, friend_links)
         attr_of == [v \in Range(g.nodes) |-> node_data(citizens, v).A]
     IN  /\ wG' = [G |-> g, W |-> [x \in {} |-> 0]]
         /\ out' = [kind |-> "returned", value |-> graph_homophily(g, attr_of)]
  /\ fn' = "nlogo_graph_homophily"
  /\ args' = [node_attr |-> "A"]
  /\ UNCHANGED <<citizens, friend_links, paths>>
  /\ UNCHANGED gvars

----------------------------------------------------------------------------
\* Specifications

\* the pairs a < b of citizens, in lexicographic order
RECURSIVE pairs_from(_, _)
pairs_from(a, b) ==
  IF a >= MaxN THEN <<>>
  ELSE IF b >= MaxN THEN pairs_from(a + 1, a + 2)
  ELSE <<link_token(a, b)>> \o pairs_from(a, b + 1)

\* Before any call; no NetLogo graph, the generators take none
Init ==
  /\ op = "idle" /\ pc = "idle"
  /\ n = 0 /\ i = 0 /\ j = 0 /\ p = 0 /\ rand = 0
  /\ calls = NoCalls
  /\ G = Graph /\ sampled = Graph
  /\ ret = NoRet
  /\ citizens = <<>> /\ friend_links = <<>>
  /\ fn = "idle" /\ args = <<>>
  /\ wG = [G |-> Graph, W |-> [x \in {} |-> 0]]
  /\ paths = [x \in {} |-> <<>>]
  /\ out = NoOut

\* NetLogo's world: MaxN citizens with IDs 0..MaxN-1, listed in ascending
\* or descending order of ID, each with one malleable attribute A, and any
\* set of friend links between them (NetLogo prints an undirected link with
\* its lower end first)
NlogoInit ==
  /\ op = "idle" /\ pc = "idle"
  /\ n = 0 /\ i = 0 /\ j = 0 /\ p = 0 /\ rand = 0
  /\ calls = NoCalls
  /\ G = Graph /\ sampled = Graph
  /\ ret = NoRet
  /\ \E attr \in [NodeIds -> AttrValues], descending \in BOOLEAN :
       citizens = [k \in 1..MaxN |->
                     LET id == IF descending THEN MaxN - k ELSE k - 1
                     IN  [ID |-> id, A |-> attr[id], malleable |-> <<"A">>, prior |-> <<>>]]
  /\ \E S \in SUBSET Range(pairs_from(0, 1)) :
       friend_links = SelectSeq(pairs_from(0, 1), LAMBDA tok : tok \in S)
  /\ fn = "idle" /\ args = <<>>
  /\ wG = [G |-> Graph, W |-> [x \in {} |-> 0]]
  /\ paths = [x \in {} |-> <<>>]
  /\ out = NoOut

Next ==
  \/ MAG_call \/ MAG_iter \/ MAG_graph_return \/ MAG_graph_bidirected_return
  \/ kronecker_call \/ kronecker_iter
  \/ kronecker_graph_return \/ kronecker_graph_bidirected_return
  \/ nx_generator_call \/ nx_generator_add_edge \/ nx_bidirected_return

NlogoNext ==
  \/ influencer_paths_within_distance
  \/ nlogo_graph_homophily

\* The generation entry points
Spec == Init /\ [][Next]_vars

\* The queries on a NetLogo graph
SpecNlogo == NlogoInit /\ [][NlogoNext]_vars

----------------------------------------------------------------------------
\* Properties of the generation entry points (under Spec)

Returned == pc = "done"

\* the unordered pairs joined by an edge of an undirected graph
Joined(g, u, v) == Contains(g.adj[u], v)

ReturnedEdges == Range(ret.edges)

\* C1: no generation entry point (MAG_graph, MAG_graph_bidirected,
\* kronecker_graph, kronecker_graph_bidirected) returns an edge [i, i]
NoSelfLoops ==
  (Returned /\ op \in MAG_ops \cup kronecker_ops)
    => \A e \in ReturnedEdges : e[1] # e[2]

\* the graph NetLogo receives, read back as an undirected graph
RECURSIVE add_edges_from(_, _)
add_edges_from(g, es) ==
  IF es = <<>> THEN g
  ELSE add_edges_from(add_edge(g, Head(es)[1], Head(es)[2]), Tail(es))

ReturnedGraph == add_edges_from([Graph EXCEPT !.nodes = ret.nodes], ret.edges)

\* C3: kronecker_graph and kronecker_graph_bidirected return exactly one
\* connected component: the returned nodes are a component of the sampled
\* graph of the largest size, the sampled edges between returned nodes are
\* all returned and no other edge is
KroneckerGiantComponent ==
  (Returned /\ op \in kronecker_ops) =>
    LET kept == Range(ret.nodes)
        comps == Range(connected_components(sampled))
    IN  /\ kept \in comps
        /\ \A c \in comps : Cardinality(c) <= Cardinality(kept)
        /\ Len(connected_components(ReturnedGraph)) = 1
        /\ \A u \in NodeIds, v \in NodeIds :
             (<<u, v>> \in ReturnedEdges \/ <<v, u>> \in ReturnedEdges)
               <=> (u \in kept /\ v \in kept /\ Joined(sampled, u, v))

\* the same for kronecker_graph alone
KroneckerGiantComponentPlain ==
  op = "kronecker_graph" => KroneckerGiantComponent

\* C4: bidirected_graph(G) holds (u,v) iff it holds (v,u), holds both
\* orientations of every edge of G, and holds no pair that G does not join
BidirectedBothWays ==
  (Returned /\ op \in bidirected_ops) =>
    \A u \in NodeIds, v \in NodeIds :
      /\ <<u, v>> \in ReturnedEdges <=> <<v, u>> \in ReturnedEdges
      /\ Joined(G, u, v) => (<<u, v>> \in ReturnedEdges /\ <<v, u>> \in ReturnedEdges)
      /\ <<u, v>> \in ReturnedEdges => Joined(G, u, v)

\* C4 witness: a bidirected result with two edges of G and a pair G does not join
BidirectedBothWaysWitness ==
  /\ Returned /\ op \in bidirected_ops
  /\ Joined(G, 0, 1) /\ Joined(G, 1, 2) /\ ~Joined(G, 0, 2)
  /\ Len(ret.edges) = 4

\* C10: a bidirected entry point returns as 'nodes' exactly the endpoints of
\* its 'edges'; a node of G without an edge is not returned
BidirectedNodesAreEndpoints ==
  (Returned /\ op \in bidirected_ops) =>
    /\ Range(ret.nodes) = { e[1] : e \in ReturnedEdges } \cup { e[2] : e \in ReturnedEdges }
    /\ \A v \in Range(G.nodes) : G.adj[v] = <<>> => v \notin Range(ret.nodes)

\* C10 witness: G has an edge and a node without any, and the result omits it
BidirectedNodesAreEndpointsWitness ==
  /\ Returned /\ op \in bidirected_ops
  /\ ret.edges # <<>>
  /\ \E v \in Range(G.nodes) : G.adj[v] = <<>> /\ v \notin Range(ret.nodes)

\* C6: the MAG entry points return L with one entry per element of 'nodes',
\* in the same order: L[k] is the attribute vector of node nodes[k]
LAlignedWithNodes ==
  (Returned /\ op \in MAG_ops) =>
    /\ ret.hasL
    /\ Len(ret.L) = Len(ret.nodes)
    /\ \A k \in 1..Len(ret.nodes) : ret.L[k] = attr_mag_L(n)[ret.nodes[k] + 1]

\* the same for MAG_graph alone
LAlignedWithNodesPlain ==
  op = "MAG_graph" => LAlignedWithNodes

\* C7: the MAG samplers draw once per unordered pair {i, j}, i # j: an
\* iteration that draws for the pair finds no earlier draw for it, and the
\* edge is in the graph iff this draw is <= p_edge[i][j]
OneDrawPerPair ==
  [][ (pc = "loop" /\ op \in MAG_ops /\ i < n /\ i # j /\ pc' = "loop")
        => /\ calls[<<j, i>>] = 0
           /\ Joined(G', i, j) <=> MAG_connects(rand', p') ]_vars

----------------------------------------------------------------------------
\* Properties of the queries on a NetLogo graph (under SpecNlogo)

Queried == fn = "influencer_paths_within_distance"

SubscriberIds == { subscriber_id(args.subscribers[k]) : k \in 1..Len(args.subscribers) }

TargetId == target_id_of(args.target)

\* the distance of citizen v to the message of the query
DistanceOf(v) ==
  LET brain == CHOOSE c \in Range(citizens) : c.ID = v
  IN  Abs(brain.A - args.message.A)

\* the distance values on the nodes of a path, its final node left out
DistancesBeforeLast(path) == [k \in 1..(Len(path) - 1) |-> DistanceOf(path[k])]

\* C2: a subscriber is a key of the returned mapping iff every distance on
\* its least-cost path, the final node left out, is <= threshold; a retained
\* subscriber maps to that distance sequence; an excluded one has a distance
\* > threshold
ThresholdFilterSound ==
  (Queried /\ out.kind = "ok") =>
    \A s \in SubscriberIds :
      LET d == DistancesBeforeLast(paths[s])
          retained == s \in DOMAIN out.value
      IN  /\ retained <=> \A k \in 1..Len(d) : d[k] <= args.threshold
          /\ retained => out.value[s] = d
          /\ ~retained => \E k \in 1..Len(d) : d[k] > args.threshold

\* C2 witness: one subscriber retained with a path of at least one hop whose distances
\* reach the threshold, another excluded
ThresholdFilterSoundWitness ==
  /\ Queried /\ out.kind = "ok"
  /\ \E s \in DOMAIN out.value :
       /\ Len(paths[s]) >= 2
       /\ \E k \in 1..Len(out.value[s]) : out.value[s][k] = args.threshold
  /\ \E s \in SubscriberIds : s \notin DOMAIN out.value

\* a friend link joins u and v
Linked(u, v) ==
  \E k \in 1..Len(friend_links) :
    {link_end1(friend_links[k]), link_end2(friend_links[k])} = {u, v}

\* the cost of the hop from u to v in the weighted graph of the query
HopCost(u, v) == wG.W[<<u, v>>]

\* C9 as claimed: the hop from u to v costs the distance of u, and the hop
\* from v to u the distance of v
HopCostFollowsDirection ==
  Queried =>
    \A u \in NodeIds, v \in NodeIds :
      Linked(u, v) => HopCost(u, v) = DistanceOf(u)

\* the place of citizen v in the citizens list
ListedAt(v) == CHOOSE k \in 1..Len(citizens) : citizens[k].ID = v

\* C9 amended: a friend link has one cost for both directions, the distance
\* to the message of its endpoint that comes first in the citizens list
HopCostIsFirstListedEndpoint ==
  Queried =>
    \A u \in NodeIds, v \in NodeIds :
      (Linked(u, v) /\ ListedAt(u) < ListedAt(v))
        => /\ HopCost(u, v) = DistanceOf(u)
           /\ HopCost(v, u) = DistanceOf(u)

\* C9 witness: a returned path goes over a link from its later-listed
\* endpoint to its earlier-listed one, and the two distances differ
HopCostIsFirstListedEndpointWitness ==
  /\ Queried /\ out.kind = "ok"
  /\ \E s \in DOMAIN paths :
       \E k \in 1..(Len(paths[s]) - 1) :
         /\ ListedAt(paths[s][k + 1]) < ListedAt(paths[s][k])
         /\ DistanceOf(paths[s][k]) # DistanceOf(paths[s][k + 1])

\* C5: a subscriber without a path to the target does not abort the batch:
\* every subscriber that has a path still gets its result
BatchFailureIsolated ==
  Queried =>
    \A s \in SubscriberIds :
      TargetId \in Reach(wG.G, {s}) => (out.kind = "ok" /\ s \in DOMAIN paths)

\* C8: graph_homophily over a graph with a node of degree zero ends in an
\* error and returns no value
HomophilyRejectsIsolatedNode ==
  (fn = "nlogo_graph_homophily" /\ \E v \in Range(wG.G.nodes) : wG.G.adj[v] = <<>>)
    => out.kind # "returned"

====
